---- MODULE Spec2Model ----
(***************************************************************************)
(* A model of the two page controllers of the library client:              *)
(*   - Books (src/src/pages/Books.tsx): the catalog page, with its         *)
(*     derived view filter -> sort -> paginate;                            *)
(*   - BookDetail (src/src/pages/BookDetail.tsx): the detail page, with    *)
(*     reviews and reading lists.                                          *)
(* React state hooks are the variables, event handlers and the two halves  *)
(* of every async function (before / after its await) are the actions,     *)
(* and the useMemo bodies are operators.                                   *)
(***************************************************************************)
EXTENDS Integers, Sequences, FiniteSets, Bags

(***************************************************************************)
(* Bounds of the model.                                                    *)
(***************************************************************************)
\* raw collections up to this length are enumerated exhaustively
MaxShort == 2
\* length of the longest raw collection getBooks() returns
MaxBooks == 25
\* length of the longest search query typed
MaxQueryLen == 2
\* page numbers handed to the pipeline range over -MaxPageInput..MaxPageInput
MaxPageInput == 4
\* backend calls of the detail page in flight at once
MaxPending == 4
\* reviews submitted from the detail page
MaxReviews == 1
\* changes of the route's book identifier while the detail page is mounted
MaxRouteChanges == 1

(***************************************************************************)
(* Strings are sequences of one-character strings.                         *)
(***************************************************************************)
Min(a, b) == IF a < b THEN a ELSE b
Max(a, b) == IF a > b THEN a ELSE b

\* String.prototype.toLowerCase, one character
LowerChar(c) ==
    CASE c = "A" -> "a"
      [] c = "B" -> "b"
      [] OTHER -> c

\* String.prototype.toLowerCase
toLowerCase(s) == [i \in 1..Len(s) |-> LowerChar(s[i])]

IsSpace(c) == c = " "

RECURSIVE trimStart(_)
trimStart(s) ==
    IF s # <<>> /\ IsSpace(Head(s)) THEN trimStart(Tail(s)) ELSE s

RECURSIVE trimEnd(_)
trimEnd(s) ==
    IF s # <<>> /\ IsSpace(s[Len(s)]) THEN trimEnd(SubSeq(s, 1, Len(s) - 1)) ELSE s

\* String.prototype.trim
trim(s) == trimEnd(trimStart(s))

\* String.prototype.includes: q occurs in s as a contiguous substring
includes(s, q) ==
    \E i \in 0..(Len(s) - Len(q)) : SubSeq(s, i + 1, i + Len(q)) = q

\* collation rank of a (lower-cased) character: white space sorts before letters
CharRank(c) ==
    CASE c = " " -> 0
      [] c = "a" -> 1
      [] c = "A" -> 2
      [] c = "b" -> 3
      [] c = "B" -> 4

\* String.prototype.localeCompare: negative, zero or positive
RECURSIVE localeCompare(_, _)
localeCompare(x, y) ==
    IF x = <<>> /\ y = <<>> THEN 0
    ELSE IF x = <<>> THEN -1
    ELSE IF y = <<>> THEN 1
    ELSE IF CharRank(Head(x)) < CharRank(Head(y)) THEN -1
    ELSE IF CharRank(Head(x)) > CharRank(Head(y)) THEN 1
    ELSE localeCompare(Tail(x), Tail(y))

(***************************************************************************)
(* Books.  A rating is kept in tenths (45 is 4.5); Absent stands for an    *)
(* undefined numeric field.                                                *)
(***************************************************************************)
Absent == -1

ITEMS_PER_PAGE == 12

SortKeys == {"title", "author", "rating", "publishedYear"}

\* the field values the backend's books are drawn from
Profiles ==
    << [title |-> <<"a", "b">>,      author |-> <<"B">>,           genre |-> <<"b">>,
        rating |-> 45,     publishedYear |-> 2001],
       [title |-> <<"A", "b">>,      author |-> <<"b", " ", "a">>, genre |-> <<"b">>,
        rating |-> Absent, publishedYear |-> 1999],
       [title |-> <<"B", "a">>,      author |-> <<"b">>,           genre |-> <<"B">>,
        rating |-> 0,      publishedYear |-> Absent],
       [title |-> <<"b", " ", "b">>, author |-> <<>>,              genre |-> <<"b", "A">>,
        rating |-> 45,     publishedYear |-> 2001],
       [title |-> <<"b">>,           author |-> <<"b", "B">>,      genre |-> <<"B", "b">>,
        rating |-> 30,     publishedYear |-> 1999] >>

NumProfiles == Len(Profiles)

\* a raw collection: the i-th book has identifier i and the fields of a profile
MkBooks(idx) ==
    [i \in 1..Len(idx) |->
        [id |-> i,
         title |-> Profiles[idx[i]].title,
         author |-> Profiles[idx[i]].author,
         genre |-> Profiles[idx[i]].genre,
         rating |-> Profiles[idx[i]].rating,
         publishedYear |-> Profiles[idx[i]].publishedYear]]

SeqsUpTo(S, n) == UNION {[1..k -> S] : k \in 0..n}

\* the longest length and the lengths around the page boundaries below it
LongLens ==
    {n \in (MaxShort + 1)..MaxBooks :
        n = MaxBooks \/ n % ITEMS_PER_PAGE \in {0, 1, ITEMS_PER_PAGE - 1}}

\* the results getBooks() may resolve with
Collections ==
    {MkBooks(idx) : idx \in SeqsUpTo(1..NumProfiles, MaxShort)}
    \cup {MkBooks([i \in 1..n |-> ((i * s) % NumProfiles) + 1]) :
            n \in LongLens, s \in {1, NumProfiles - 1}}

QueryChars == {"a", "A", " "}

\* the strings the search box may hand to handleSearch
Queries == SeqsUpTo(QueryChars, MaxQueryLen)

(***************************************************************************)
(* The derived view of Books: filter, sort, paginate.                      *)
(***************************************************************************)
\* the predicate of books.filter(...)
MatchesQuery(book, query) ==
    \/ includes(toLowerCase(book.title), query)
    \/ includes(toLowerCase(book.author), query)
    \/ includes(toLowerCase(book.genre), query)

\* useMemo filteredBooks
filteredBooksOf(bs, q) ==
    IF trim(q) = <<>> THEN bs
    ELSE LET query == toLowerCase(q)
             Test(book) == MatchesQuery(book, query)
         IN SelectSeq(bs, Test)

\* (x || 0) on an optional number
OrZero(x) == IF x = Absent \/ x = 0 THEN 0 ELSE x

\* a comparator with the numeric operands swapped (ascending)
compareBooksAscending(key, a, b) ==
    IF key = "rating" THEN OrZero(a.rating) - OrZero(b.rating)
    ELSE IF key = "publishedYear" THEN OrZero(a.publishedYear) - OrZero(b.publishedYear)
    ELSE localeCompare(toLowerCase(a[key]), toLowerCase(b[key]))

\* the comparator handed to Array.prototype.sort
compareBooks(key, a, b) ==
    IF key = "rating" THEN OrZero(b.rating) - OrZero(a.rating)
    ELSE IF key = "publishedYear" THEN OrZero(b.publishedYear) - OrZero(a.publishedYear)
    ELSE localeCompare(toLowerCase(a[key]), toLowerCase(b[key]))

\* an unstable variant: x placed before the elements it compares equal to
RECURSIVE InsertSortedUnstable(_, _, _)
InsertSortedUnstable(key, x, s) ==
    IF s = <<>> THEN <<x>>
    ELSE IF compareBooks(key, x, Head(s)) <= 0 THEN <<x>> \o s
    ELSE <<Head(s)>> \o InsertSortedUnstable(key, x, Tail(s))

\* x placed after every element of the sorted s that does not compare greater
RECURSIVE InsertSorted(_, _, _)
InsertSorted(key, x, s) ==
    IF s = <<>> THEN <<x>>
    ELSE IF compareBooks(key, x, Head(s)) < 0 THEN <<x>> \o s
    ELSE <<Head(s)>> \o InsertSorted(key, x, Tail(s))

\* Array.prototype.sort (stable, ES2019) on a copy of s
RECURSIVE SortFrom(_, _, _)
SortFrom(key, acc, rest) ==
    IF rest = <<>> THEN acc
    ELSE SortFrom(key, InsertSorted(key, Head(rest), acc), Tail(rest))

\* useMemo sortedBooks
sortedBooksOf(fs, key) == SortFrom(key, <<>>, fs)

\* Math.ceil(n / d) for n >= 0, d > 0
Ceil(n, d) == (n + d - 1) \div d

\* Math.floor in place of Math.ceil
totalPagesOfFloor(ss) == Len(ss) \div ITEMS_PER_PAGE

\* const totalPages
totalPagesOf(ss) == Ceil(Len(ss), ITEMS_PER_PAGE)

\* Array.prototype.slice(start, end): a negative index counts from the end
RelIndex(i, len) == IF i < 0 THEN Max(len + i, 0) ELSE Min(i, len)

slice(s, start, end) ==
    SubSeq(s, RelIndex(start, Len(s)) + 1, RelIndex(end, Len(s)))

\* a slice one item short
paginatedBooksOfShort(ss, page) ==
    LET start == (page - 1) * ITEMS_PER_PAGE
    IN slice(ss, start, start + ITEMS_PER_PAGE - 1)

\* a zero-based page number
paginatedBooksOfZeroBased(ss, page) ==
    LET start == page * ITEMS_PER_PAGE
    IN slice(ss, start, start + ITEMS_PER_PAGE)

\* useMemo paginatedBooks
paginatedBooksOf(ss, page) ==
    LET start == (page - 1) * ITEMS_PER_PAGE
    IN slice(ss, start, start + ITEMS_PER_PAGE)

(***************************************************************************)
(* State of the Books controller.                                          *)
(***************************************************************************)
VARIABLES
    books,        \* useState<Book[]>
    searchQuery,  \* useState('')
    isLoading,    \* useState(true)
    sortBy,       \* useState('title')
    currentPage,  \* useState(1)
    booksFetch,   \* the getBooks() call of loadBooks: "idle", "pending", "done"
    rendered      \* the page slices handed to BookGrid by paginatedBooks

catalogVars == <<books, searchQuery, isLoading, sortBy, currentPage, booksFetch, rendered>>

(***************************************************************************)
(* State of the BookDetail controller, of the backend it talks to and of   *)
(* the calls in flight between them.                                       *)
(***************************************************************************)
VARIABLES
    id,                  \* useParams: the route's book identifier
    location,            \* where navigate() has led: "detail" while the page is mounted
    book,                \* useState<Book | null>: the loaded book, by its identifier
    isLoadingBook,       \* BookDetail's useState isLoading
    isUpdating,          \* useState(false)
    readingLists,        \* useState<ReadingList[]>
    isModalOpen,         \* useState(false)
    selectedListId,      \* useState('')
    reviews,             \* useState<Review[]>
    isReviewLoading,     \* useState(false)
    isReviewModalOpen,   \* useState(false)
    newReview,           \* useState({ rating: 5, comment: '' })
    isSubmittingReview,  \* useState(false)
    userId,              \* useState<string | null>
    mounted,             \* the mount effects have run
    pending,             \* bag of the backend calls awaiting their answer
    serverLists,         \* backend: the reading lists
    serverReviews,       \* backend: the reviews, oldest first
    lastEvent,           \* the last user event: "submitReview" and "confirmAdd" for a
                         \* press of those buttons, "other" for any other
    routeChanges         \* how often the route's id has changed

detailVars ==
    <<id, location, book, isLoadingBook, isUpdating, readingLists, isModalOpen,
      selectedListId, reviews, isReviewLoading, isReviewModalOpen, newReview,
      isSubmittingReview, userId, mounted, pending, serverLists, serverReviews,
      lastEvent, routeChanges>>

vars == <<catalogVars, detailVars>>

\* the derived values of a render of Books
filteredBooks == filteredBooksOf(books, searchQuery)
sortedBooks == sortedBooksOf(filteredBooks, sortBy)
totalPages == totalPagesOf(sortedBooks)
paginatedBooks == paginatedBooksOf(sortedBooks, currentPage)

(***************************************************************************)
(* Values of the detail page.  A book is represented by its identifier.    *)
(***************************************************************************)
Null == "null"

\* the books the backend holds
BookIds == {"b1", "b2"}

\* the identifiers a route may carry; "b9" is no book of the backend
RouteIds == BookIds \cup {"b9"}

\* the routes the detail page is opened with
InitialRoutes == {"b1", "b9"}

\* session.userSub: a user, the empty string, or undefined
Undefined == "undefined"
UserSubs == {"u1", "", Undefined}

\* the comments the textarea may hold
Comments == {"", "ok"}

\* the star buttons of the review modal that are pressed, of the five
Stars == {1, 5}

\* the reading lists of the backend before the page is opened
InitialLists ==
    {<< [id |-> "l1", name |-> "n1", bookIds |-> ids], [id |-> "l2", name |-> "n2"] >> :
        ids \in {<<>>, <<"b1">>}}

\* a backend without reading lists
NoLists == <<>>

\* the reviews of the backend before the page is opened
InitialReviews ==
    {<<>>, << [bookId |-> "b1", userId |-> "u2", rating |-> 4, comment |-> "ok"] >>}

\* a backend call in flight; the fields a call does not use stay blank
BlankCall ==
    [op |-> "", bookId |-> "", userId |-> "", rating |-> 0, comment |-> "",
     listId |-> "", bookIds |-> <<>>, name |-> ""]

getBook(bookId) == [BlankCall EXCEPT !.op = "getBook", !.bookId = bookId]
getReviews(bookId) == [BlankCall EXCEPT !.op = "getReviews", !.bookId = bookId]
fetchAuthSession == [BlankCall EXCEPT !.op = "fetchAuthSession"]
getReadingLists == [BlankCall EXCEPT !.op = "getReadingLists"]
createReview(review) ==
    [BlankCall EXCEPT !.op = "createReview", !.bookId = review.bookId,
                      !.userId = review.userId, !.rating = review.rating,
                      !.comment = review.comment]
updateReadingList(listId, data) ==
    [BlankCall EXCEPT !.op = "updateReadingList", !.listId = listId,
                      !.bookIds = data.bookIds, !.name = data.name]

CallsIn(bag, op) == {c \in BagToSet(bag) : c.op = op}
Calls(op) == CallsIn(pending, op)
Issued(bag, call) == bag (+) SetToBag({call})
Answered(bag, call) == bag (-) SetToBag({call})
CanIssue(n) == BagCardinality(pending) + n <= MaxPending

\* the state of BookDetail after construction, before its effects run
DetailConstructed ==
    /\ location = "detail"
    /\ book = Null
    /\ isLoadingBook = TRUE
    /\ isUpdating = FALSE
    /\ readingLists = <<>>
    /\ isModalOpen = FALSE
    /\ selectedListId = ""
    /\ reviews = <<>>
    /\ isReviewLoading = FALSE
    /\ isReviewModalOpen = FALSE
    /\ newReview = [rating |-> 5, comment |-> ""]
    /\ isSubmittingReview = FALSE
    /\ userId = Null
    /\ mounted = FALSE
    /\ pending = EmptyBag
    /\ lastEvent = "none"
    /\ routeChanges = 0

\* the state of Books after construction, before its effect runs
BooksConstructed ==
    /\ books = <<>>
    /\ searchQuery = <<>>
    /\ isLoading = TRUE
    /\ sortBy = "title"
    /\ currentPage = 1
    /\ booksFetch = "idle"
    /\ rendered = <<>>

\* the detail page is not open
NoDetailPage ==
    /\ DetailConstructed
    /\ id = "b1"
    /\ serverLists = NoLists
    /\ serverReviews = <<>>

\* Books after construction; no detail page is open
Init ==
    /\ BooksConstructed
    /\ NoDetailPage

\* the page is rendered past the loading spinner
Shown == ~isLoading

\* useEffect(() => { loadBooks() }, []) up to the await
LoadBooks ==
    /\ booksFetch = "idle"
    /\ isLoading' = TRUE
    /\ booksFetch' = "pending"
    /\ UNCHANGED <<books, searchQuery, sortBy, currentPage, rendered>>
    /\ UNCHANGED detailVars

\* getBooks() resolves: setBooks(data), finally setIsLoading(false)
LoadBooksResolve ==
    /\ booksFetch = "pending"
    /\ \E data \in Collections : books' = data
    /\ isLoading' = FALSE
    /\ booksFetch' = "done"
    /\ UNCHANGED <<searchQuery, sortBy, currentPage, rendered>>
    /\ UNCHANGED detailVars

\* getBooks() rejects: handleApiError, finally setIsLoading(false)
LoadBooksReject ==
    /\ booksFetch = "pending"
    /\ isLoading' = FALSE
    /\ booksFetch' = "done"
    /\ UNCHANGED <<books, searchQuery, sortBy, currentPage, rendered>>
    /\ UNCHANGED detailVars

\* handleSearch without the page reset
handleSearchKeepsPage(query) ==
    /\ searchQuery' = query
    /\ currentPage' = currentPage

handleSearch(query) ==
    /\ searchQuery' = query
    /\ currentPage' = 1

\* handleSort without the page reset
handleSortKeepsPage(value) ==
    /\ sortBy' = value
    /\ currentPage' = currentPage

handleSort(value) ==
    /\ sortBy' = value
    /\ currentPage' = 1

\* BookSearch calls onSearch
Search ==
    /\ Shown
    /\ \E query \in Queries : handleSearch(query)
    /\ UNCHANGED <<books, isLoading, sortBy, booksFetch, rendered>>
    /\ UNCHANGED detailVars

\* the sort <select> changes
Sort ==
    /\ Shown
    /\ \E value \in SortKeys : handleSort(value)
    /\ UNCHANGED <<books, isLoading, searchQuery, booksFetch, rendered>>
    /\ UNCHANGED detailVars

\* the pagination bar is rendered
PaginationShown == Shown /\ totalPages > 1

\* p => Math.max(1, p - 1)
previousPage(p) == Max(1, p - 1)

\* p => Math.min(totalPages, p + 1)
nextPage(p, last) == Min(last, p + 1)

\* the Previous button, disabled on page 1
Previous ==
    /\ PaginationShown
    /\ currentPage # 1
    /\ currentPage' = previousPage(currentPage)
    /\ UNCHANGED <<books, searchQuery, isLoading, sortBy, booksFetch, rendered>>
    /\ UNCHANGED detailVars

\* a numbered page button
GoToPage ==
    /\ PaginationShown
    /\ \E page \in 1..totalPages : currentPage' = page
    /\ UNCHANGED <<books, searchQuery, isLoading, sortBy, booksFetch, rendered>>
    /\ UNCHANGED detailVars

\* the Next button, disabled on the last page
NextPage ==
    /\ PaginationShown
    /\ currentPage # totalPages
    /\ currentPage' = nextPage(currentPage, totalPages)
    /\ UNCHANGED <<books, searchQuery, isLoading, sortBy, booksFetch, rendered>>
    /\ UNCHANGED detailVars

Next ==
    \/ LoadBooks
    \/ LoadBooksResolve
    \/ LoadBooksReject
    \/ Search
    \/ Sort
    \/ Previous
    \/ GoToPage
    \/ NextPage

Spec == Init /\ [][Next]_vars

(***************************************************************************)
(* The pipeline on its own: any raw collection, query, sort key and page   *)
(* number, and one run of the paginate step.                               *)
(***************************************************************************)
PageInputs == (0 - MaxPageInput)..MaxPageInput

InitPipeline ==
    /\ books \in Collections
    /\ searchQuery \in Queries
    /\ sortBy \in SortKeys
    /\ currentPage \in PageInputs
    /\ isLoading = FALSE
    /\ booksFetch = "done"
    /\ rendered = <<>>
    /\ NoDetailPage

Paginate ==
    /\ rendered = <<>>
    /\ rendered' = <<paginatedBooks>>
    /\ UNCHANGED <<books, searchQuery, isLoading, sortBy, currentPage, booksFetch>>
    /\ UNCHANGED detailVars

NextPipeline == Paginate

SpecPipeline == InitPipeline /\ [][NextPipeline]_vars

(***************************************************************************)
(* The BookDetail controller.                                              *)
(***************************************************************************)
\* a JavaScript value that is not falsy
Truthy(x) == x \notin {Null, Undefined, ""}

\* the page is mounted and has not navigated away
Mounted == mounted /\ location = "detail"

\* the page is rendered past the loading spinner and the book check
DetailShown == Mounted /\ ~isLoadingBook /\ book # Null

\* readingLists.find((l) => l.id === listId), as a sequence of 0 or 1 lists
findList(lists, listId) ==
    LET Same(l) == l.id = listId
    IN SubSeq(SelectSeq(lists, Same), 1, 1)

\* targetList.bookIds || []
bookIdsOf(list) == IF "bookIds" \in DOMAIN list THEN list.bookIds ELSE <<>>

\* the reviews the backend holds that this page has submitted
submittedReviews ==
    LET Own(r) == r.userId = userId
    IN SelectSeq(serverReviews, Own)

\* the backend's reviews of one book
reviewsOf(bookId) ==
    LET Same(r) == r.bookId = bookId
    IN SelectSeq(serverReviews, Same)

\* the three mount effects: loadBook(id) and loadReviews(id), checkAuth,
\* loadBooksData, each up to its await
Mount ==
    /\ ~mounted
    /\ location = "detail"
    /\ mounted' = TRUE
    /\ isLoadingBook' = TRUE
    /\ isReviewLoading' = TRUE
    /\ pending' = Issued(Issued(Issued(Issued(pending, getBook(id)), getReviews(id)),
                                fetchAuthSession), getReadingLists)
    /\ UNCHANGED <<id, location, book, isUpdating, readingLists, isModalOpen,
                   selectedListId, reviews, isReviewModalOpen, newReview,
                   isSubmittingReview, userId, serverLists, serverReviews,
                   lastEvent, routeChanges>>
    /\ UNCHANGED catalogVars

\* the route's id changes: the effect on [id] runs loadBook and loadReviews again
ChangeRoute ==
    /\ Mounted
    /\ CanIssue(2)
    /\ routeChanges < MaxRouteChanges
    /\ routeChanges' = routeChanges + 1
    /\ \E newId \in RouteIds \ {id} :
        /\ id' = newId
        /\ pending' = Issued(Issued(pending, getBook(newId)), getReviews(newId))
    /\ isLoadingBook' = TRUE
    /\ isReviewLoading' = TRUE
    /\ lastEvent' = "other"
    /\ UNCHANGED <<location, book, isUpdating, readingLists, isModalOpen,
                   selectedListId, reviews, isReviewModalOpen, newReview,
                   isSubmittingReview, userId, mounted, serverLists,
                   serverReviews>>
    /\ UNCHANGED catalogVars

\* loadBook after its await: an absent book leads to /404
GetBookResolve ==
    /\ Mounted
    /\ \E c \in Calls("getBook") :
        /\ pending' = Answered(pending, c)
        /\ IF c.bookId \in BookIds
           THEN book' = c.bookId /\ location' = location
           ELSE book' = book /\ location' = "/404"
    /\ isLoadingBook' = FALSE
    /\ UNCHANGED <<id, isUpdating, readingLists, isModalOpen, selectedListId,
                   reviews, isReviewLoading, isReviewModalOpen, newReview,
                   isSubmittingReview, userId, mounted, serverLists,
                   serverReviews, lastEvent, routeChanges>>
    /\ UNCHANGED catalogVars

\* loadBook when getBook fails: handleApiError
GetBookReject ==
    /\ Mounted
    /\ \E c \in Calls("getBook") : pending' = Answered(pending, c)
    /\ isLoadingBook' = FALSE
    /\ UNCHANGED <<id, location, book, isUpdating, readingLists, isModalOpen,
                   selectedListId, reviews, isReviewLoading,
                   isReviewModalOpen, newReview, isSubmittingReview, userId,
                   mounted, serverLists, serverReviews, lastEvent,
                   routeChanges>>
    /\ UNCHANGED catalogVars

\* loadReviews after its await
GetReviewsResolve ==
    /\ Mounted
    /\ \E c \in Calls("getReviews") :
        /\ pending' = Answered(pending, c)
        /\ reviews' = reviewsOf(c.bookId)
    /\ isReviewLoading' = FALSE
    /\ UNCHANGED <<id, location, book, isLoadingBook, isUpdating,
                   readingLists, isModalOpen, selectedListId,
                   isReviewModalOpen, newReview, isSubmittingReview, userId,
                   mounted, serverLists, serverReviews, lastEvent,
                   routeChanges>>
    /\ UNCHANGED catalogVars

\* loadReviews when getReviews fails
GetReviewsReject ==
    /\ Mounted
    /\ \E c \in Calls("getReviews") : pending' = Answered(pending, c)
    /\ isReviewLoading' = FALSE
    /\ UNCHANGED <<id, location, book, isLoadingBook, isUpdating,
                   readingLists, isModalOpen, selectedListId, reviews,
                   isReviewModalOpen, newReview, isSubmittingReview, userId,
                   mounted, serverLists, serverReviews, lastEvent,
                   routeChanges>>
    /\ UNCHANGED catalogVars

\* session.userSub || null
userIdOf(userSub) == IF Truthy(userSub) THEN userSub ELSE Null

\* checkAuth after its await
CheckAuthResolve ==
    /\ Mounted
    /\ fetchAuthSession \in Calls("fetchAuthSession")
    /\ pending' = Answered(pending, fetchAuthSession)
    /\ \E userSub \in UserSubs : userId' = userIdOf(userSub)
    /\ UNCHANGED <<id, location, book, isLoadingBook, isUpdating,
                   readingLists, isModalOpen, selectedListId, reviews,
                   isReviewLoading, isReviewModalOpen, newReview,
                   isSubmittingReview, mounted, serverLists, serverReviews,
                   lastEvent, routeChanges>>
    /\ UNCHANGED catalogVars

\* checkAuth when fetchAuthSession fails
CheckAuthReject ==
    /\ Mounted
    /\ fetchAuthSession \in Calls("fetchAuthSession")
    /\ pending' = Answered(pending, fetchAuthSession)
    /\ UNCHANGED <<id, location, book, isLoadingBook, isUpdating,
                   readingLists, isModalOpen, selectedListId, reviews,
                   isReviewLoading, isReviewModalOpen, newReview,
                   isSubmittingReview, userId, mounted, serverLists,
                   serverReviews, lastEvent, routeChanges>>
    /\ UNCHANGED catalogVars

\* loadBooksData after its await
GetReadingListsResolve ==
    /\ Mounted
    /\ getReadingLists \in Calls("getReadingLists")
    /\ pending' = Answered(pending, getReadingLists)
    /\ readingLists' = serverLists
    /\ UNCHANGED <<id, location, book, isLoadingBook, isUpdating,
                   isModalOpen, selectedListId, reviews, isReviewLoading,
                   isReviewModalOpen, newReview, isSubmittingReview, userId,
                   mounted, serverLists, serverReviews, lastEvent,
                   routeChanges>>
    /\ UNCHANGED catalogVars

\* loadBooksData when getReadingLists fails
GetReadingListsReject ==
    /\ Mounted
    /\ getReadingLists \in Calls("getReadingLists")
    /\ pending' = Answered(pending, getReadingLists)
    /\ UNCHANGED <<id, location, book, isLoadingBook, isUpdating,
                   readingLists, isModalOpen, selectedListId, reviews,
                   isReviewLoading, isReviewModalOpen, newReview,
                   isSubmittingReview, userId, mounted, serverLists,
                   serverReviews, lastEvent, routeChanges>>
    /\ UNCHANGED catalogVars

\* handleWriteReview without the session check
handleWriteReviewUnchecked ==
    /\ isReviewModalOpen' = TRUE
    /\ location' = location

handleWriteReview ==
    IF ~Truthy(userId)
    THEN /\ location' = "/login"
         /\ isReviewModalOpen' = isReviewModalOpen
    ELSE /\ isReviewModalOpen' = TRUE
         /\ location' = location

\* the Write a Review button
WriteReview ==
    /\ DetailShown
    /\ handleWriteReview
    /\ lastEvent' = "other"
    /\ UNCHANGED <<id, book, isLoadingBook, isUpdating, readingLists,
                   isModalOpen, selectedListId, reviews, isReviewLoading,
                   newReview, isSubmittingReview, userId, mounted, pending,
                   serverLists, serverReviews, routeChanges>>
    /\ UNCHANGED catalogVars

\* a star button of the review modal
SetRating ==
    /\ DetailShown
    /\ isReviewModalOpen
    /\ \E star \in Stars : newReview' = [newReview EXCEPT !.rating = star]
    /\ lastEvent' = "other"
    /\ UNCHANGED <<id, location, book, isLoadingBook, isUpdating,
                   readingLists, isModalOpen, selectedListId, reviews,
                   isReviewLoading, isReviewModalOpen, isSubmittingReview,
                   userId, mounted, pending, serverLists, serverReviews,
                   routeChanges>>
    /\ UNCHANGED catalogVars

\* the comment textarea of the review modal
SetComment ==
    /\ DetailShown
    /\ isReviewModalOpen
    /\ \E text \in Comments : newReview' = [newReview EXCEPT !.comment = text]
    /\ lastEvent' = "other"
    /\ UNCHANGED <<id, location, book, isLoadingBook, isUpdating,
                   readingLists, isModalOpen, selectedListId, reviews,
                   isReviewLoading, isReviewModalOpen, isSubmittingReview,
                   userId, mounted, pending, serverLists, serverReviews,
                   routeChanges>>
    /\ UNCHANGED catalogVars

\* a Submit Review button that is disabled only while submitting
submitDisabledWhileSubmitting == isSubmittingReview

\* disabled={!newReview.comment || isSubmittingReview}
submitDisabled == newReview.comment = "" \/ isSubmittingReview

\* handleReviewSubmit up to its await
handleReviewSubmit ==
    IF book = Null \/ ~Truthy(userId)
    THEN UNCHANGED <<isSubmittingReview, pending>>
    ELSE /\ isSubmittingReview' = TRUE
         /\ pending' = Issued(pending,
                createReview([bookId |-> book, userId |-> userId,
                              rating |-> newReview.rating,
                              comment |-> newReview.comment]))

\* the Submit Review button: a click on the disabled button does nothing
SubmitReview ==
    /\ DetailShown
    /\ isReviewModalOpen
    /\ CanIssue(1)
    /\ Len(submittedReviews) + Cardinality(Calls("createReview")) < MaxReviews
    /\ IF submitDisabled
       THEN isSubmittingReview' = isSubmittingReview /\ pending' = pending
       ELSE handleReviewSubmit
    /\ lastEvent' = "submitReview"
    /\ UNCHANGED <<id, location, book, isLoadingBook, isUpdating,
                   readingLists, isModalOpen, selectedListId, reviews,
                   isReviewLoading, isReviewModalOpen, newReview, userId,
                   mounted, serverLists, serverReviews, routeChanges>>
    /\ UNCHANGED catalogVars

\* handleReviewSubmit after its await, without the call of loadReviews
CreateReviewResolveNoReload ==
    /\ Mounted
    /\ \E c \in Calls("createReview") :
        /\ serverReviews' = Append(serverReviews,
                [bookId |-> c.bookId, userId |-> c.userId,
                 rating |-> c.rating, comment |-> c.comment])
        /\ pending' = Answered(pending, c)
    /\ isReviewModalOpen' = FALSE
    /\ newReview' = [rating |-> 5, comment |-> ""]
    /\ isSubmittingReview' = FALSE
    /\ UNCHANGED <<id, location, book, isLoadingBook, isUpdating,
                   readingLists, isModalOpen, selectedListId, reviews,
                   isReviewLoading, userId, mounted, serverLists, lastEvent,
                   routeChanges>>
    /\ UNCHANGED catalogVars

\* handleReviewSubmit after its await: the review is stored, the modal closed,
\* the draft reset and the reviews loaded again
CreateReviewResolve ==
    /\ Mounted
    /\ \E c \in Calls("createReview") :
        /\ serverReviews' = Append(serverReviews,
                [bookId |-> c.bookId, userId |-> c.userId,
                 rating |-> c.rating, comment |-> c.comment])
        /\ pending' = Issued(Answered(pending, c), getReviews(c.bookId))
    /\ isReviewModalOpen' = FALSE
    /\ newReview' = [rating |-> 5, comment |-> ""]
    /\ isReviewLoading' = TRUE
    /\ isSubmittingReview' = FALSE
    /\ UNCHANGED <<id, location, book, isLoadingBook, isUpdating,
                   readingLists, isModalOpen, selectedListId, reviews,
                   userId, mounted, serverLists, lastEvent, routeChanges>>
    /\ UNCHANGED catalogVars

\* handleReviewSubmit when createReview fails: handleApiError
CreateReviewReject ==
    /\ Mounted
    /\ \E c \in Calls("createReview") : pending' = Answered(pending, c)
    /\ isSubmittingReview' = FALSE
    /\ UNCHANGED <<id, location, book, isLoadingBook, isUpdating,
                   readingLists, isModalOpen, selectedListId, reviews,
                   isReviewLoading, isReviewModalOpen, newReview, userId,
                   mounted, serverLists, serverReviews, lastEvent,
                   routeChanges>>
    /\ UNCHANGED catalogVars

\* the Cancel button of the review modal
CancelReview ==
    /\ DetailShown
    /\ isReviewModalOpen
    /\ isReviewModalOpen' = FALSE
    /\ lastEvent' = "other"
    /\ UNCHANGED <<id, location, book, isLoadingBook, isUpdating,
                   readingLists, isModalOpen, selectedListId, reviews,
                   isReviewLoading, newReview, isSubmittingReview, userId,
                   mounted, pending, serverLists, serverReviews,
                   routeChanges>>
    /\ UNCHANGED catalogVars

\* handleAddToList: the Add to Reading List button
AddToList ==
    /\ DetailShown
    /\ isModalOpen' = TRUE
    /\ lastEvent' = "other"
    /\ UNCHANGED <<id, location, book, isLoadingBook, isUpdating,
                   readingLists, selectedListId, reviews, isReviewLoading,
                   isReviewModalOpen, newReview, isSubmittingReview, userId,
                   mounted, pending, serverLists, serverReviews,
                   routeChanges>>
    /\ UNCHANGED catalogVars

\* the <select> of the reading-list modal: no list, or one of readingLists
SelectList ==
    /\ DetailShown
    /\ isModalOpen
    /\ \E listId \in {""} \cup {readingLists[i].id : i \in DOMAIN readingLists} :
        selectedListId' = listId
    /\ lastEvent' = "other"
    /\ UNCHANGED <<id, location, book, isLoadingBook, isUpdating,
                   readingLists, isModalOpen, reviews, isReviewLoading,
                   isReviewModalOpen, newReview, isSubmittingReview, userId,
                   mounted, pending, serverLists, serverReviews,
                   routeChanges>>
    /\ UNCHANGED catalogVars

\* disabled={!selectedListId || isUpdating}
confirmDisabled == selectedListId = "" \/ isUpdating

\* handleConfirmAdd up to its await
handleConfirmAdd ==
    IF selectedListId = "" \/ book = Null
    THEN UNCHANGED <<isUpdating, pending>>
    ELSE LET targetList == findList(readingLists, selectedListId) IN
         IF targetList = <<>>
         THEN isUpdating' = FALSE /\ pending' = pending
         ELSE LET updatedBookIds == Append(bookIdsOf(targetList[1]), book) IN
              /\ isUpdating' = TRUE
              /\ pending' = Issued(pending,
                    updateReadingList(selectedListId,
                        [bookIds |-> updatedBookIds, name |-> targetList[1].name]))

\* the Confirm button: a click on the disabled button does nothing
ConfirmAdd ==
    /\ DetailShown
    /\ isModalOpen
    /\ CanIssue(1)
    /\ IF confirmDisabled
       THEN isUpdating' = isUpdating /\ pending' = pending
       ELSE handleConfirmAdd
    /\ lastEvent' = "confirmAdd"
    /\ UNCHANGED <<id, location, book, isLoadingBook, readingLists,
                   isModalOpen, selectedListId, reviews, isReviewLoading,
                   isReviewModalOpen, newReview, isSubmittingReview, userId,
                   mounted, serverLists, serverReviews, routeChanges>>
    /\ UNCHANGED catalogVars

\* handleConfirmAdd after its await: the backend stores the collection it was sent
UpdateReadingListResolve ==
    /\ Mounted
    /\ \E c \in Calls("updateReadingList") :
        /\ serverLists' =
             [i \in DOMAIN serverLists |->
                IF serverLists[i].id = c.listId
                THEN [id |-> c.listId, name |-> c.name, bookIds |-> c.bookIds]
                ELSE serverLists[i]]
        /\ pending' = Answered(pending, c)
    /\ isModalOpen' = FALSE
    /\ isUpdating' = FALSE
    /\ UNCHANGED <<id, location, book, isLoadingBook, readingLists,
                   selectedListId, reviews, isReviewLoading,
                   isReviewModalOpen, newReview, isSubmittingReview, userId,
                   mounted, serverReviews, lastEvent, routeChanges>>
    /\ UNCHANGED catalogVars

\* handleConfirmAdd when updateReadingList fails
UpdateReadingListReject ==
    /\ Mounted
    /\ \E c \in Calls("updateReadingList") : pending' = Answered(pending, c)
    /\ isUpdating' = FALSE
    /\ UNCHANGED <<id, location, book, isLoadingBook, readingLists,
                   isModalOpen, selectedListId, reviews, isReviewLoading,
                   isReviewModalOpen, newReview, isSubmittingReview, userId,
                   mounted, serverLists, serverReviews, lastEvent,
                   routeChanges>>
    /\ UNCHANGED catalogVars

\* the Cancel button of the reading-list modal
CancelAdd ==
    /\ DetailShown
    /\ isModalOpen
    /\ isModalOpen' = FALSE
    /\ lastEvent' = "other"
    /\ UNCHANGED <<id, location, book, isLoadingBook, isUpdating,
                   readingLists, selectedListId, reviews, isReviewLoading,
                   isReviewModalOpen, newReview, isSubmittingReview, userId,
                   mounted, pending, serverLists, serverReviews,
                   routeChanges>>
    /\ UNCHANGED catalogVars

\* the detail page is opened on a backend with or without a review
InitDetail ==
    /\ DetailConstructed
    /\ id \in InitialRoutes
    /\ serverLists = NoLists
    /\ serverReviews \in InitialReviews
    /\ BooksConstructed

\* the detail page with a user who writes reviews and follows links
NextDetail ==
    \/ Mount
    \/ ChangeRoute
    \/ GetBookResolve
    \/ GetBookReject
    \/ GetReviewsResolve
    \/ GetReviewsReject
    \/ CheckAuthResolve
    \/ CheckAuthReject
    \/ GetReadingListsResolve
    \/ GetReadingListsReject
    \/ WriteReview
    \/ SetRating
    \/ SetComment
    \/ SubmitReview
    \/ CreateReviewResolve
    \/ CreateReviewReject
    \/ CancelReview

SpecDetail == InitDetail /\ [][NextDetail]_vars

\* the detail page with a user who fills reading lists and follows links
NextLists ==
    \/ Mount
    \/ ChangeRoute
    \/ GetBookResolve
    \/ GetBookReject
    \/ GetReviewsResolve
    \/ GetReviewsReject
    \/ CheckAuthResolve
    \/ CheckAuthReject
    \/ GetReadingListsResolve
    \/ GetReadingListsReject
    \/ AddToList
    \/ SelectList
    \/ ConfirmAdd
    \/ UpdateReadingListResolve
    \/ UpdateReadingListReject
    \/ CancelAdd

\* the detail page is opened on a backend with two reading lists
InitLists ==
    /\ DetailConstructed
    /\ id \in InitialRoutes
    /\ serverLists \in InitialLists
    /\ serverReviews = <<>>
    /\ BooksConstructed

SpecLists == InitLists /\ [][NextLists]_vars

(***************************************************************************)
(* Properties of the catalog page.                                         *)
(***************************************************************************)
Range(s) == {s[i] : i \in DOMAIN s}

\* t holds the items of s, each once (the books of a collection are distinct)
IsPermutation(t, s) ==
    /\ Len(t) = Len(s)
    /\ Range(t) = Range(s)
    /\ Cardinality(Range(s)) = Len(s)

\* the position of item x in s
IndexOf(x, s) == CHOOSE i \in DOMAIN s : s[i] = x

\* the least k with k * d >= n
LeastCover(n, d) == CHOOSE k \in 0..n : k * d >= n /\ (k = 0 \/ (k - 1) * d < n)

\* C1: in every state of the catalog page with totalPages >= 1 the current
\* page lies in 1..totalPages, and the Previous updater on page 1 and the Next
\* updater on page totalPages return the page they were given.
C1_PageInRange ==
    LET last == totalPages IN
    last >= 1 =>
        /\ 1 <= currentPage
        /\ currentPage <= last
        /\ currentPage = 1 => previousPage(currentPage) = currentPage
        /\ currentPage = last => nextPage(currentPage, last) = currentPage

\* C1 witness: the last of three pages has been reached under a search
C1_Witness ==
    /\ booksFetch = "done"
    /\ searchQuery # <<>>
    /\ currentPage = 3
    /\ totalPages = 3

\* C2 as stated: the page count is max(1, ceil(n / 12)), so 1 for no books
C2_Original ==
    booksFetch = "done" =>
        totalPages = Max(1, LeastCover(Len(filteredBooks), ITEMS_PER_PAGE))

\* C2 amended: the page count is ceil(n / 12) for the n filtered books: it
\* equals max(1, ceil(n / 12)) for n >= 1 and is 0 when no book is left.
C2_TotalPages ==
    LET n == Len(filteredBooks)
        last == totalPages
    IN /\ last = LeastCover(n, ITEMS_PER_PAGE)
       /\ n >= 1 => last = Max(1, LeastCover(n, ITEMS_PER_PAGE))
       /\ n = 0 => last = 0

\* C2 witness: a search that matches none of the loaded books
C2_Witness ==
    /\ booksFetch = "done"
    /\ Len(books) > ITEMS_PER_PAGE
    /\ filteredBooks = <<>>
    /\ totalPages = 0

\* a book one of whose lower-cased title, author, genre contains q
ContainsInSomeField(bk, q) ==
    \E field \in {"title", "author", "genre"} :
        \E i \in 1..(Len(bk[field]) + 1) : \E j \in (i - 1)..Len(bk[field]) :
            toLowerCase(SubSeq(bk[field], i, j)) = q

\* C3 as stated: the filter keeps exactly the books that contain the
\* lower-cased, trimmed query in title, author or genre, in the raw order.
C3_FilterByTrimmedQuery ==
    LET q == toLowerCase(trim(searchQuery))
        Keep(bk) == ContainsInSomeField(bk, q)
    IN filteredBooks = SelectSeq(books, Keep)

\* the pages 1..n of s, one after the other
RECURSIVE ConcatPages(_, _)
ConcatPages(s, n) ==
    IF n <= 0 THEN <<>>
    ELSE ConcatPages(s, n - 1) \o paginatedBooksOf(s, n)

PagesPartition(ss, last) ==
    /\ ConcatPages(ss, last) = ss
    /\ \A p \in 1..last :
        LET n == Len(paginatedBooksOf(ss, p)) IN
        /\ p < last => n = ITEMS_PER_PAGE
        /\ 1 <= n /\ n <= ITEMS_PER_PAGE
    /\ \A i \in DOMAIN ss :
         Cardinality({p \in 1..last : ss[i] \in Range(paginatedBooksOf(ss, p))}) = 1

\* C4: the page slices 1..totalPages, concatenated, are the sorted sequence;
\* every item is on exactly one page, every page but the last holds 12 items
\* and the last holds 1 to 12.
C4_PagesPartition == PagesPartition(sortedBooks, totalPages)

\* C4 witness: 25 books on three pages, the third one shown
C4_Witness ==
    /\ currentPage = 3
    /\ Len(filteredBooks) = 2 * ITEMS_PER_PAGE + 1
    /\ totalPages = 3
    /\ Len(paginatedBooks) = 1

\* a numeric field, absent counted as 0
NumericKey(bk, field) == IF bk[field] = Absent THEN 0 ELSE bk[field]

NumericDescending(ss, fs, field) ==
    /\ IsPermutation(ss, fs)
    /\ \A i \in 1..(Len(ss) - 1) :
         NumericKey(ss[i], field) >= NumericKey(ss[i + 1], field)

\* C5: under sort key rating or publishedYear the sorted sequence is a
\* permutation of the filtered one, non-increasing in that field with an
\* absent value counted as 0.
C5_NumericDescending ==
    sortBy \in {"rating", "publishedYear"} =>
        NumericDescending(sortedBooks, filteredBooks, sortBy)

MovedWithUnrated(ss, fs) ==
    /\ ss # fs
    /\ \E i \in DOMAIN ss : ss[i].rating = Absent
    /\ \E i \in DOMAIN ss : ss[i].rating > 0

\* C5 witness: a sort by rating that moved books, one of them unrated
C5_Witness ==
    /\ sortBy = "rating"
    /\ Len(books) > 2
    /\ MovedWithUnrated(sortedBooks, filteredBooks)

\* x <= y in the lexicographic order of the lower-cased characters
LexLeq(x, y) ==
    \/ (Len(x) <= Len(y) /\ SubSeq(y, 1, Len(x)) = x)
    \/ \E k \in 1..Min(Len(x), Len(y)) :
        /\ SubSeq(x, 1, k - 1) = SubSeq(y, 1, k - 1)
        /\ CharRank(x[k]) < CharRank(y[k])

AlphaAscendingStable(ss, fs, field) ==
    LET keys == [i \in DOMAIN ss |-> toLowerCase(ss[i][field])]
        pos == [i \in DOMAIN ss |-> IndexOf(ss[i], fs)]
    IN /\ IsPermutation(ss, fs)
       /\ \A i \in 1..(Len(ss) - 1) : LexLeq(keys[i], keys[i + 1])
       /\ \A i \in 1..(Len(ss) - 1) : keys[i] = keys[i + 1] => pos[i] < pos[i + 1]

\* C6: under sort key title or author the sorted sequence is a permutation
\* of the filtered one, non-decreasing in the lower-cased field, and books
\* with equal lower-cased fields keep their order of the filtered sequence.
C6_AlphaAscendingStable ==
    sortBy \in {"title", "author"} =>
        AlphaAscendingStable(sortedBooks, filteredBooks, sortBy)

MovedWithCaseTie(ss, fs) ==
    /\ ss # fs
    /\ \E i \in 1..(Len(ss) - 1) :
        /\ ss[i].title # ss[i + 1].title
        /\ toLowerCase(ss[i].title) = toLowerCase(ss[i + 1].title)

\* C6 witness: a sort by title that moved books and left two books whose
\* titles differ only in case next to each other
C6_Witness ==
    /\ sortBy = "title"
    /\ MovedWithCaseTie(sortedBooks, filteredBooks)

\* C7 as stated: a page number outside 1..totalPages gives an empty slice
C7_Original ==
    (rendered # <<>> /\ (currentPage < 1 \/ currentPage > totalPages))
        => rendered[1] = <<>>

ConsecutiveItems(page, ss) ==
    /\ Len(page) <= ITEMS_PER_PAGE
    /\ \E i \in 0..Len(ss) : page = SubSeq(ss, i + 1, i + Len(page))

\* C7 amended: page 0 and every page number above totalPages give an empty
\* slice; a negative page number gives a slice of at most 12 consecutive
\* items of the sorted sequence, which need not be empty.
C7_OutOfRangeSlice ==
    rendered # <<>> =>
        /\ (currentPage = 0 \/ currentPage > totalPages) => rendered[1] = <<>>
        /\ currentPage < 0 => ConsecutiveItems(rendered[1], sortedBooks)

\* C7 witness: the page after the last one of a non-empty sequence
C7_Witness ==
    /\ rendered = << <<>> >>
    /\ books # <<>>
    /\ currentPage = totalPages + 1
    /\ currentPage > 1

(***************************************************************************)
(* Properties of the detail page.                                          *)
(***************************************************************************)
\* C8: no createReview call carries an empty comment, and a press of Submit
\* Review while the comment is empty changes neither the reviews, nor the
\* review modal, nor the submitting flag, nor the calls in flight.
C8_EmptyCommentRejected ==
    /\ [](\A c \in Calls("createReview") : c.comment # "")
    /\ [][(SubmitReview /\ newReview.comment = "")
            => UNCHANGED <<reviews, isReviewModalOpen, isSubmittingReview,
                           pending, serverReviews>>]_vars

\* C8 witness: Submit Review was pressed by a signed-in user on an empty
\* comment, and the modal is still open with nothing in flight
C8_Witness ==
    /\ lastEvent = "submitReview"
    /\ DetailShown
    /\ isReviewModalOpen
    /\ newReview.comment = ""
    /\ Truthy(userId)
    /\ ~isSubmittingReview
    /\ Calls("createReview") = {}
    /\ submittedReviews = <<>>

\* how often x occurs in s
CountOf(x, s) == Cardinality({i \in DOMAIN s : s[i] = x})

\* the identifiers the backend holds for a reading list
PersistedIds(listId) ==
    LET found == findList(serverLists, listId)
    IN IF found = <<>> THEN <<>> ELSE bookIdsOf(found[1])

\* C9 as stated: every updateReadingList call issued for a book that the
\* backend's list already holds carries that book once more than the list does.
C9_DuplicateOnEveryAdd ==
    [][\A c \in CallsIn(pending', "updateReadingList") \ Calls("updateReadingList") :
         CountOf(book, PersistedIds(c.listId)) >= 1
            => CountOf(book, c.bookIds) = CountOf(book, PersistedIds(c.listId)) + 1]_vars

\* C10: a press of Write a Review while userId is null leaves the review
\* modal closed and navigates to /login; the modal is open only for a
\* signed-in user, and every createReview call carries a user identifier.
C10_ReviewNeedsUser ==
    /\ [][(WriteReview /\ ~Truthy(userId))
            => (~isReviewModalOpen' /\ location' = "/login")]_vars
    /\ [](isReviewModalOpen => Truthy(userId))
    /\ [](\A c \in Calls("createReview") : Truthy(c.userId))

\* C10 witness: the page went to /login from Write a Review without a user
C10_Witness ==
    /\ location = "/login"
    /\ userId = Null
    /\ ~isReviewModalOpen
    /\ book # Null

(***************************************************************************)
(* Frame effects of the catalog handlers.                                  *)
(***************************************************************************)
\* C11: every handleSearch and every handleSort step ends on page 1, whatever
\* the page before; handleSearch keeps the sort key, handleSort keeps the
\* query, and neither changes the raw book collection.
C11_QueryAndSortResetPage ==
    [][/\ Search => (currentPage' = 1 /\ sortBy' = sortBy /\ books' = books)
       /\ Sort => (currentPage' = 1 /\ searchQuery' = searchQuery /\ books' = books)]_vars

\* a query and a sort key have been chosen on a catalog of several pages, and
\* the page is 1 although the loaded books still fill more than one page
C11_Witness ==
    /\ booksFetch = "done"
    /\ searchQuery # <<>>
    /\ sortBy # "title"
    /\ Len(books) > ITEMS_PER_PAGE
    /\ totalPages > 1
    /\ currentPage = 1

(***************************************************************************)
(* The loading flags and the initial fetches.                              *)
(***************************************************************************)
\* the catalog: isLoading is true while getBooks is outstanding and false once
\* it has settled; a failure keeps the books; the fetch is never issued again
C12_CatalogLoading ==
    /\ [](booksFetch = "pending" => isLoading)
    /\ [][(booksFetch = "pending" /\ booksFetch' # "pending") => ~isLoading']_vars
    /\ [][LoadBooksReject => books' = books]_vars
    /\ [][booksFetch = "done" => booksFetch' = "done"]_vars

\* the detail page: every settling of getBook (a book, an absent book, a
\* failure) clears the flag; a failure keeps the book and issues no call
C12_DetailSettles ==
    /\ [][(GetBookResolve \/ GetBookReject) => ~isLoadingBook']_vars
    /\ [][GetBookReject =>
            /\ book' = book
            /\ \A c \in BagToSet(pending') : CopiesIn(c, pending') <= CopiesIn(c, pending)]_vars

\* the call is the getBook that the mount effect issued: the only one before
\* a route change, and after the first change the one for the earlier id
InitialBookFetch(c) ==
    /\ c.op = "getBook"
    /\ routeChanges = 0 \/ (routeChanges = 1 /\ c.bookId # id)

\* the detail page: isLoading is true while the initial getBook is outstanding
C12_DetailLoadingUntilSettled ==
    [](Mounted => \A c \in BagToSet(pending) : InitialBookFetch(c) => isLoadingBook)

\* C12: on both pages the loading flag is true from the issue of the initial
\* fetch until it settles and false once it has settled, with data, with a
\* failure or with an absent book; a failure keeps the books / the book and
\* no fetch is issued again.
C12_LoadingUntilSettled ==
    /\ C12_CatalogLoading
    /\ C12_DetailSettles
    /\ C12_DetailLoadingUntilSettled

(***************************************************************************)
(* The reload of the reviews after a submission.                           *)
(***************************************************************************)
\* the step answers the createReview call c
SettlesCreate(c) == c.op = "createReview" /\ CopiesIn(c, pending') < CopiesIn(c, pending)

\* the backend has stored a review in this step: the call succeeded
Stored == Len(serverReviews') = Len(serverReviews) + 1

\* the calls of getReviews that the step adds to those in flight
Reloads ==
    {d \in CallsIn(pending', "getReviews") : CopiesIn(d, pending') > CopiesIn(d, pending)}

\* the step runs the effect on [id]: at mount or when the route id changes
RunsIdEffect == (~mounted /\ mounted') \/ id' # id

\* C13: a createReview that succeeds issues in the same step exactly one
\* getReviews, for the reviewed book, closes the review modal and resets the
\* draft to rating 5 and an empty comment; one that fails issues no call and
\* changes neither the modal nor the draft; both leave isSubmittingReview
\* false; and no step other than a successful createReview or the effect on
\* [id] issues a getReviews, so the reload never precedes the answer.
C13_ReloadAfterCreate ==
    /\ [][\A c \in BagToSet(pending) : (SettlesCreate(c) /\ Stored) =>
            /\ Reloads = {getReviews(c.bookId)}
            /\ CopiesIn(getReviews(c.bookId), pending')
                    = CopiesIn(getReviews(c.bookId), pending) + 1
            /\ ~isReviewModalOpen'
            /\ newReview' = [rating |-> 5, comment |-> ""]
            /\ ~isSubmittingReview']_vars
    /\ [][\A c \in BagToSet(pending) : (SettlesCreate(c) /\ ~Stored) =>
            /\ \A d \in BagToSet(pending') : CopiesIn(d, pending') <= CopiesIn(d, pending)
            /\ isReviewModalOpen' = isReviewModalOpen
            /\ newReview' = newReview
            /\ ~isSubmittingReview']_vars
    /\ [][Reloads # {} => (RunsIdEffect \/ Stored)]_vars

\* the user's review has been stored; its reload is in flight, the modal is
\* closed, the draft is reset and the submission is over
C13_Witness ==
    /\ Mounted
    /\ Len(submittedReviews) = 1
    /\ CopiesIn(getReviews(submittedReviews[1].bookId), pending) = 1
    /\ isReviewLoading
    /\ ~isReviewModalOpen
    /\ newReview = [rating |-> 5, comment |-> ""]
    /\ ~isSubmittingReview
    /\ Calls("createReview") = {}

\* a submission has failed: the modal is still open with the draft that was
\* submitted, and nothing is in flight for it
C13_FailureReached ==
    /\ lastEvent = "submitReview"
    /\ DetailShown
    /\ isReviewModalOpen
    /\ newReview.comment # ""
    /\ ~isSubmittingReview
    /\ Calls("createReview") = {}
    /\ Calls("getReviews") = {}
    /\ submittedReviews = <<>>

(***************************************************************************)
(* Overlapping fetches.  Every call of the backend succeeds here, so a     *)
(* state without outstanding fetches is one where all of them have         *)
(* settled successfully.                                                   *)
(***************************************************************************)
\* the detail page when no call fails
NextAllSucceed ==
    \/ Mount
    \/ ChangeRoute
    \/ GetBookResolve
    \/ GetReviewsResolve
    \/ CheckAuthResolve
    \/ GetReadingListsResolve
    \/ WriteReview
    \/ SetRating
    \/ SetComment
    \/ SubmitReview
    \/ CreateReviewResolve
    \/ CancelReview

SpecAllSucceed == InitDetail /\ [][NextAllSucceed]_vars

\* no getBook and no getReviews is outstanding
FetchesSettled == Calls("getBook") = {} /\ Calls("getReviews") = {}

\* once the fetches have settled, the page shows the book of the route id
\* and that book's reviews
C14_DisplayedIsCurrent ==
    [](Mounted /\ FetchesSettled => (book = id /\ reviews = reviewsOf(id)))

\* isReviewLoading is true while a getReviews is outstanding
C14_ReviewLoadingWhileOutstanding ==
    [](Mounted /\ Calls("getReviews") # {} => isReviewLoading)

\* C14: under every interleaving of overlapping fetches, once all outstanding
\* fetches have settled successfully the displayed book and reviews are those
\* of the current route id, and isReviewLoading is true in every state in
\* which a getReviews is still outstanding.
C14_OverlappingFetches ==
    /\ C14_DisplayedIsCurrent
    /\ C14_ReviewLoadingWhileOutstanding

====
